---- MODULE Spec2Model ----
(***************************************************************************)
(* Model of api_server.py: module start-up (environment secrets, provider  *)
(* clients) and the two request handlers rag_chat (POST /chat) and         *)
(* selective_context_chat (POST /chat/selective) running on one asyncio    *)
(* event loop.                                                             *)
(*                                                                         *)
(* Strings are sequences of tokens.  A fixed literal of the source is one  *)
(* token holding the literal's text; caller- and provider-supplied text is *)
(* a sequence of letters of Alphabet.  Python's None / a value is the      *)
(* empty / one-element sequence (None, Some(v)).  A dict is a set of       *)
(* <<key, value>> pairs.                                                   *)
(***************************************************************************)
EXTENDS Integers, Sequences, FiniteSets, TLC

\* ------------------------------------------------------------------ bounds
MaxStrLen == 1      \* longest caller/provider supplied string
MaxHits == 3        \* longest list of points the vector search returns
MaxReq == 2         \* requests in flight in the concurrency specifications

\* ------------------------------------------------------------ value domains
None == <<>>
Some(v) == <<v>>

Alphabet == {"a", "b"}

RECURSIVE StrUpTo(_)
StrUpTo(n) ==
    IF n = 0 THEN {<<>>}
    ELSE LET S == StrUpTo(n - 1) IN S \cup {Append(s, c) : s \in S, c \in Alphabet}

Str == StrUpTo(MaxStrLen)

RECURSIVE SeqUpTo(_, _)
SeqUpTo(S, n) ==
    IF n = 0 THEN {<<>>}
    ELSE LET P == SeqUpTo(S, n - 1) IN P \cup {Append(p, x) : p \in P, x \in S}

Range(s) == {s[i] : i \in DOMAIN s}

\* s occurs in t as a contiguous run of tokens (Python's `s in t`)
Contains(t, s) ==
    \E i \in 0..(Len(t) - Len(s)) : SubSeq(t, i + 1, i + Len(s)) = s

\* payloads a stored point can carry: {} , a dict without "text", a dict with "text"
Payloads == {{}, {<<"page", <<"a">>>>}} \cup {{<<"text", s>>} : s \in Str}
Hits == {[payload |-> None]} \cup {[payload |-> Some(d)] : d \in Payloads}
HitLists == SeqUpTo(Hits, MaxHits)

\* texts of the exceptions the provider bindings raise
ExcTexts == {"APIConnectionError: Connection error.", "UnexpectedResponse: 401 Unauthorized"}

EmbedOutcomes ==
    {[ok |-> TRUE, exc |-> "none"]} \cup {[ok |-> FALSE, exc |-> e] : e \in ExcTexts}
SearchOutcomes(HL) ==
    {[ok |-> TRUE, hits |-> h, exc |-> "none"] : h \in HL}
        \cup {[ok |-> FALSE, hits |-> <<>>, exc |-> e] : e \in ExcTexts}
\* message.content of a chat completion is a string or None
GenOutcomes(T) ==
    {[ok |-> TRUE, content |-> Some(t), exc |-> "none"] : t \in T}
        \cup {[ok |-> TRUE, content |-> None, exc |-> "none"]}
        \cup {[ok |-> FALSE, content |-> None, exc |-> e] : e \in ExcTexts}

\* ------------------------------------------------------- program constants
EnvOrder == <<"OPENAI_API_KEY", "QDRANT_URL", "QDRANT_API_KEY">>
EnvVars == Range(EnvOrder)

Delimiter == <<"\n\n---\n\n">>
RefusalText == "I can only answer questions using the contents of The Spec-Driven AI Engineer book."
SelectiveRefusalText == "I cannot find the answer within the selected text portion."
ChatFailureDetail == "Failed to process chat request."
SelectiveFailureDetail == "Failed to process selective chat request."

Req == 1..MaxReq

VARIABLES
    env,            \* os.environ after load_dotenv(): the variables that are set
    phase,          \* "boot", "loaded", "aborted", "serving"
    secrets,        \* module globals openai_api_key, qdrant_url, qdrant_api_key
    startupError,   \* message of the RuntimeError raised at import, or None
    clients,        \* provider clients created: "qdrant", "openai"
    pc,             \* per request: position of its handler coroutine
    request,        \* per request: the parsed request body
    loop,           \* request whose coroutine runs on the event loop; 0 = idle
    searchResult,   \* per request: outcome of query_points, or None
    combined,       \* per request: local combined_context, or None
    genMessages,    \* per request: messages handed to chat.completions.create
    genResult,      \* per request: outcome of chat.completions.create, or None
    calls,          \* per request: provider calls made so far
    caught,         \* per request: stage and text of the exception caught
    response        \* per request: the HTTP response

vars == <<env, phase, secrets, startupError, clients, pc, request, loop,
          searchResult, combined, genMessages, genResult, calls, caught, response>>

startupVars == <<env, phase, secrets, startupError, clients>>

NoRequest == [kind |-> "none", query |-> <<>>, context |-> <<>>]
NoCaught == [stage |-> "none", exc |-> "none"]
NoResponse == [status |-> 0, answer |-> None, detail |-> None]
NoCalls == [embed |-> 0, search |-> 0, gen |-> 0]

\* ---------------------------------------------------------- pure functions

\* os.environ[...] in source order: the first variable that is not set
FirstMissing(e) ==
    IF \E i \in DOMAIN EnvOrder : EnvOrder[i] \notin e
    THEN Some(EnvOrder[CHOOSE i \in DOMAIN EnvOrder :
                    /\ EnvOrder[i] \notin e
                    /\ \A j \in 1..(i - 1) : EnvOrder[j] \in e])
    ELSE None

\* the assignments that ran before the KeyError
LoadedPrefix(e) ==
    {EnvOrder[i] : i \in {k \in DOMAIN EnvOrder : \A j \in 1..k : EnvOrder[j] \in e}}

StartupMessage(var) ==
    <<"Environment variable ", var, " not set. Check your .env file.">>

\* variant: `if hit.payload is not None`
TruthyNotNone(p) == p # None
\* `if hit.payload`: None and the empty dict are falsy
Truthy(p) == p # None /\ p[1] # {}

\* dict.get(key): the value, or None
DictGet(d, k) ==
    IF \E kv \in d : kv[1] = k
    THEN Some((CHOOSE kv \in d : kv[1] = k)[2])
    ELSE None

\* [hit.payload.get("text") for hit in search_hits if hit.payload]
RECURSIVE ContextChunks(_)
ContextChunks(hits) ==
    IF hits = <<>> THEN <<>>
    ELSE LET h == Head(hits)
             rest == ContextChunks(Tail(hits))
         IN IF Truthy(h.payload)
            THEN <<DictGet(h.payload[1], "text")>> \o rest
            ELSE rest

\* sep.join(strs) for a list of strings
\* variant: a separator before every item
RECURSIVE JoinStrLeading(_, _)
JoinStrLeading(sep, strs) ==
    IF strs = <<>> THEN <<>>
    ELSE sep \o Head(strs) \o JoinStrLeading(sep, Tail(strs))

RECURSIVE JoinStr(_, _)
JoinStr(sep, strs) ==
    IF strs = <<>> THEN <<>>
    ELSE IF Len(strs) = 1 THEN strs[1]
    ELSE strs[1] \o sep \o JoinStr(sep, Tail(strs))

\* sep.join(chunks): TypeError when an item is None
Join(sep, chunks) ==
    IF \E i \in DOMAIN chunks : chunks[i] = None
    THEN [ok |-> FALSE, value |-> <<>>,
          exc |-> "TypeError: sequence item: expected str instance, NoneType found"]
    ELSE [ok |-> TRUE, exc |-> "none",
          value |-> JoinStr(sep, [i \in DOMAIN chunks |-> chunks[i][1]])]

RagSystemPrompt ==
    <<"Answer the user's question based ONLY on the provided context. If the context does not contain the answer, politely state, '",
      RefusalText, "'">>

\* variant: the context appended to the system prompt, the bare query as user message
RagMessagesContextInSystem(ctx, query) ==
    << [role |-> "system", content |-> RagSystemPrompt \o ctx],
       [role |-> "user", content |-> query] >>
RagMessages(ctx, query) ==
    << [role |-> "system", content |-> RagSystemPrompt],
       [role |-> "user",
        content |-> <<"Context:\n">> \o ctx \o <<"\n\nQuestion: ">> \o query] >>

SelectiveSystemPrompt(context) ==
    <<"Answer the user's question based ONLY on this SPECIFIC selected text: '">>
        \o context
        \o <<"'. Do not use any other knowledge. If the answer is not in this exact text, state, '",
             SelectiveRefusalText, "'">>

\* variant: the selected text left out of the system prompt
SelectiveMessagesNoContext(context, query) ==
    << [role |-> "system", content |-> SelectiveSystemPrompt(<<>>)],
       [role |-> "user", content |-> context \o query] >>
SelectiveMessages(context, query) ==
    << [role |-> "system", content |-> SelectiveSystemPrompt(context)],
       [role |-> "user", content |-> query] >>

\* AnswerResponse(answer=...)
AnswerResponse(text) == [status |-> 200, answer |-> Some(text), detail |-> None]

\* raise HTTPException(status_code=500, detail=...) in `except Exception as e`
\* variant: detail built from str(e)
ChatFailureLeaky(e) == [status |-> 500, answer |-> None, detail |-> Some(<<ChatFailureDetail, e>>)]
ChatFailure(e) == [status |-> 500, answer |-> None, detail |-> Some(<<ChatFailureDetail>>)]
SelectiveFailure(e) ==
    [status |-> 500, answer |-> None, detail |-> Some(<<SelectiveFailureDetail>>)]

\* ------------------------------------------------------------------- Init
InitRequests ==
    /\ phase = "boot"
    /\ secrets = {}
    /\ startupError = None
    /\ clients = {}
    /\ pc = [r \in Req |-> "idle"]
    /\ request = [r \in Req |-> NoRequest]
    /\ loop = 0
    /\ searchResult = [r \in Req |-> None]
    /\ combined = [r \in Req |-> None]
    /\ genMessages = [r \in Req |-> <<>>]
    /\ genResult = [r \in Req |-> None]
    /\ calls = [r \in Req |-> NoCalls]
    /\ caught = [r \in Req |-> NoCaught]
    /\ response = [r \in Req |-> NoResponse]

Init == env \in SUBSET EnvVars /\ InitRequests

\* ---------------------------------------------------------------- start-up

\* try: openai_api_key = os.environ[...] ... except KeyError: raise RuntimeError
\* variant: os.environ.get(...), a missing variable is not an error
LoadSecretsDefaulting ==
    /\ phase = "boot"
    /\ phase' = "loaded"
    /\ secrets' = env
    /\ UNCHANGED <<env, startupError, clients, pc, request, loop, searchResult,
                   combined, genMessages, genResult, calls, caught, response>>
LoadSecrets ==
    /\ phase = "boot"
    /\ secrets' = LoadedPrefix(env)
    /\ IF FirstMissing(env) = None
       THEN phase' = "loaded" /\ UNCHANGED startupError
       ELSE /\ phase' = "aborted"
            /\ startupError' = Some(StartupMessage(FirstMissing(env)[1]))
    /\ UNCHANGED <<env, clients, pc, request, loop, searchResult, combined,
                   genMessages, genResult, calls, caught, response>>

\* qdrant_client = QdrantClient(...); openai_client = OpenAI(...); the app serves
CreateClients ==
    /\ phase = "loaded"
    /\ clients' = {"qdrant", "openai"}
    /\ phase' = "serving"
    /\ UNCHANGED <<env, secrets, startupError, pc, request, loop, searchResult,
                   combined, genMessages, genResult, calls, caught, response>>

\* ---------------------------------------------------------------- requests

\* a request is routed to its handler; the coroutine waits for the event loop
Arrive(r, kind, q, c) ==
    /\ phase = "serving"
    /\ pc[r] = "idle"
    /\ pc' = [pc EXCEPT ![r] = "accepted"]
    /\ request' = [request EXCEPT ![r] = [kind |-> kind, query |-> q, context |-> c]]
    /\ UNCHANGED <<startupVars, loop, searchResult, combined, genMessages, genResult,
                   calls, caught, response>>

\* rag_chat up to openai_client.embeddings.create: a synchronous call made on
\* the event-loop thread
RagChatStart(r) ==
    /\ loop = 0
    /\ pc[r] = "accepted"
    /\ request[r].kind = "chat"
    /\ loop' = r
    /\ pc' = [pc EXCEPT ![r] = "embed_call"]
    /\ calls' = [calls EXCEPT ![r].embed = @ + 1]
    /\ UNCHANGED <<startupVars, request, searchResult, combined, genMessages, genResult,
                   caught, response>>

\* variant: query_points called directly, on the event-loop thread
EmbedReturnSearchInline(r) ==
    /\ pc[r] = "embed_call"
    /\ loop = r
    /\ \E out \in EmbedOutcomes :
        IF out.ok
        THEN /\ pc' = [pc EXCEPT ![r] = "search_wait"]
             /\ calls' = [calls EXCEPT ![r].search = @ + 1]
             /\ UNCHANGED <<loop, caught, response>>
        ELSE /\ pc' = [pc EXCEPT ![r] = "done"]
             /\ loop' = 0
             /\ caught' = [caught EXCEPT ![r] = [stage |-> "embed", exc |-> out.exc]]
             /\ response' = [response EXCEPT ![r] = ChatFailure(out.exc)]
             /\ UNCHANGED calls
    /\ UNCHANGED <<startupVars, request, searchResult, combined, genMessages, genResult>>
\* variant: the except clause is missing and the handler goes on to the search
EmbedReturnSwallow(r) ==
    /\ pc[r] = "embed_call"
    /\ loop = r
    /\ loop' = 0
    /\ pc' = [pc EXCEPT ![r] = "search_wait"]
    /\ calls' = [calls EXCEPT ![r].search = @ + 1]
    /\ \E out \in EmbedOutcomes :
        caught' = [caught EXCEPT ![r] =
                     IF out.ok THEN @ ELSE [stage |-> "embed", exc |-> out.exc]]
    /\ UNCHANGED <<startupVars, request, searchResult, combined, genMessages,
                   genResult, response>>
\* embeddings.create returns or raises; on success the handler awaits
\* run_in_threadpool(qdrant_client.query_points, ...) and yields the loop
EmbedReturn(r) ==
    /\ pc[r] = "embed_call"
    /\ loop = r
    /\ loop' = 0
    /\ \E out \in EmbedOutcomes :
        IF out.ok
        THEN /\ pc' = [pc EXCEPT ![r] = "search_wait"]
             /\ calls' = [calls EXCEPT ![r].search = @ + 1]
             /\ UNCHANGED <<caught, response>>
        ELSE /\ pc' = [pc EXCEPT ![r] = "done"]
             /\ caught' = [caught EXCEPT ![r] = [stage |-> "embed", exc |-> out.exc]]
             /\ response' = [response EXCEPT ![r] = ChatFailure(out.exc)]
             /\ UNCHANGED calls
    /\ UNCHANGED <<startupVars, request, searchResult, combined, genMessages, genResult>>

\* the worker thread finishes query_points; the coroutine becomes runnable
SearchReturn(r, HL) ==
    /\ pc[r] = "search_wait"
    /\ pc' = [pc EXCEPT ![r] = "search_done"]
    /\ \E out \in SearchOutcomes(HL) :
        searchResult' = [searchResult EXCEPT ![r] = Some(out)]
    /\ UNCHANGED <<startupVars, request, loop, combined, genMessages, genResult,
                   calls, caught, response>>

\* rag_chat from the await to chat.completions.create (or to its return)
RagChatResume(r) ==
    /\ loop = 0
    /\ pc[r] = "search_done"
    /\ LET out == searchResult[r][1]
           chunks == ContextChunks(out.hits)
           joined == Join(Delimiter, chunks)
       IN IF ~out.ok
          THEN /\ pc' = [pc EXCEPT ![r] = "done"]
               /\ caught' = [caught EXCEPT ![r] = [stage |-> "search", exc |-> out.exc]]
               /\ response' = [response EXCEPT ![r] = ChatFailure(out.exc)]
               /\ searchResult' = [searchResult EXCEPT ![r] = None]
               /\ loop' = 0
               /\ UNCHANGED <<combined, genMessages, calls>>
          ELSE IF chunks = <<>>
          THEN /\ pc' = [pc EXCEPT ![r] = "done"]
               /\ response' = [response EXCEPT ![r] = AnswerResponse(<<RefusalText>>)]
               /\ searchResult' = [searchResult EXCEPT ![r] = None]
               /\ loop' = 0
               /\ UNCHANGED <<combined, genMessages, calls, caught>>
          ELSE IF ~joined.ok
          THEN /\ pc' = [pc EXCEPT ![r] = "done"]
               /\ caught' = [caught EXCEPT ![r] = [stage |-> "assemble", exc |-> joined.exc]]
               /\ response' = [response EXCEPT ![r] = ChatFailure(joined.exc)]
               /\ searchResult' = [searchResult EXCEPT ![r] = None]
               /\ loop' = 0
               /\ UNCHANGED <<combined, genMessages, calls>>
          ELSE /\ pc' = [pc EXCEPT ![r] = "gen_call"]
               /\ combined' = [combined EXCEPT ![r] = Some(joined.value)]
               /\ genMessages' = [genMessages EXCEPT ![r] =
                                    RagMessages(joined.value, request[r].query)]
               /\ calls' = [calls EXCEPT ![r].gen = @ + 1]
               /\ loop' = r
               /\ UNCHANGED <<searchResult, caught, response>>
    /\ UNCHANGED <<startupVars, request, genResult>>

\* chat.completions.create returns or raises in rag_chat; the handler returns
RagChatGenReturn(r, T) ==
    /\ pc[r] = "gen_call"
    /\ loop = r
    /\ request[r].kind = "chat"
    /\ loop' = 0
    /\ pc' = [pc EXCEPT ![r] = "done"]
    /\ searchResult' = [searchResult EXCEPT ![r] = None]
    /\ combined' = [combined EXCEPT ![r] = None]
    /\ genMessages' = [genMessages EXCEPT ![r] = <<>>]
    /\ \E out \in GenOutcomes(T) :
        /\ genResult' = [genResult EXCEPT ![r] = Some(out)]
        /\ IF ~out.ok
           THEN /\ caught' = [caught EXCEPT ![r] = [stage |-> "generate", exc |-> out.exc]]
                /\ response' = [response EXCEPT ![r] = ChatFailure(out.exc)]
           ELSE IF out.content = None
           THEN /\ caught' = [caught EXCEPT ![r] =
                                [stage |-> "respond", exc |-> "ValidationError: answer"]]
                /\ response' = [response EXCEPT ![r] = ChatFailure("ValidationError: answer")]
           ELSE /\ response' = [response EXCEPT ![r] = AnswerResponse(out.content[1])]
                /\ UNCHANGED caught
    /\ UNCHANGED <<startupVars, request, calls>>

\* selective_context_chat up to chat.completions.create
SelectiveStart(r) ==
    /\ loop = 0
    /\ pc[r] = "accepted"
    /\ request[r].kind = "selective"
    /\ loop' = r
    /\ pc' = [pc EXCEPT ![r] = "gen_call"]
    /\ genMessages' = [genMessages EXCEPT ![r] =
                         SelectiveMessages(request[r].context, request[r].query)]
    /\ calls' = [calls EXCEPT ![r].gen = @ + 1]
    /\ UNCHANGED <<startupVars, request, searchResult, combined, genResult, caught,
                   response>>

\* chat.completions.create returns or raises in selective_context_chat
SelectiveGenReturn(r, T) ==
    /\ pc[r] = "gen_call"
    /\ loop = r
    /\ request[r].kind = "selective"
    /\ loop' = 0
    /\ pc' = [pc EXCEPT ![r] = "done"]
    /\ genMessages' = [genMessages EXCEPT ![r] = <<>>]
    /\ \E out \in GenOutcomes(T) :
        /\ genResult' = [genResult EXCEPT ![r] = Some(out)]
        /\ IF ~out.ok
           THEN /\ caught' = [caught EXCEPT ![r] = [stage |-> "generate", exc |-> out.exc]]
                /\ response' = [response EXCEPT ![r] = SelectiveFailure(out.exc)]
           ELSE IF out.content = None
           THEN /\ caught' = [caught EXCEPT ![r] =
                                [stage |-> "respond", exc |-> "ValidationError: answer"]]
                /\ response' = [response EXCEPT ![r] = SelectiveFailure("ValidationError: answer")]
           ELSE /\ response' = [response EXCEPT ![r] = AnswerResponse(out.content[1])]
                /\ UNCHANGED caught
    /\ UNCHANGED <<startupVars, request, searchResult, combined, calls>>

\* --------------------------------------------------------- specifications

\* one request, inputs and provider outcomes over the full domains
Next ==
    \/ LoadSecrets
    \/ CreateClients
    \/ \E q \in Str : Arrive(1, "chat", q, <<>>)
    \/ \E q \in Str, c \in Str : Arrive(1, "selective", q, c)
    \/ RagChatStart(1)
    \/ EmbedReturn(1)
    \/ SearchReturn(1, HitLists)
    \/ RagChatResume(1)
    \/ RagChatGenReturn(1, Str)
    \/ SelectiveStart(1)
    \/ SelectiveGenReturn(1, Str)

Spec == Init /\ [][Next]_vars

\* several requests in flight, inputs and provider outcomes over small domains
ConcInit == env = EnvVars /\ InitRequests

ConcStr == {<<"a">>}
ConcHitLists == {<<>>, <<[payload |-> Some({<<"text", <<"a">>>>})]>>}

ConcNext ==
    \/ LoadSecrets
    \/ CreateClients
    \/ \E r \in Req :
        \/ \E q \in ConcStr : Arrive(r, "chat", q, <<>>)
        \/ \E q \in ConcStr, c \in ConcStr : Arrive(r, "selective", q, c)
        \/ RagChatStart(r)
        \/ EmbedReturn(r)
        \/ SearchReturn(r, ConcHitLists)
        \/ RagChatResume(r)
        \/ RagChatGenReturn(r, ConcStr)
        \/ SelectiveStart(r)
        \/ SelectiveGenReturn(r, ConcStr)

ConcSpec == ConcInit /\ [][ConcNext]_vars

\* The event loop runs every runnable coroutine, and every provider call returns
\* or raises, except that the vector search of request SlowReq may never return.
SlowReq == CHOOSE r \in Req : \A q \in Req : r <= q

ConcFairness ==
    /\ WF_vars(LoadSecrets)
    /\ WF_vars(CreateClients)
    /\ \A r \in Req :
        /\ WF_vars(RagChatStart(r))
        /\ WF_vars(SelectiveStart(r))
        /\ WF_vars(RagChatResume(r))
        /\ WF_vars(EmbedReturn(r))
        /\ WF_vars(RagChatGenReturn(r, ConcStr))
        /\ WF_vars(SelectiveGenReturn(r, ConcStr))
        /\ (r # SlowReq =>
               WF_vars(SearchReturn(r, ConcHitLists)))

ConcFairSpec == ConcSpec /\ ConcFairness

\* ------------------------------------------------------------------ claims

IsChat(r) == request[r].kind = "chat"
IsSelective(r) == request[r].kind = "selective"

\* a hit is payload-bearing: its payload is neither absent nor empty
PayloadBearing(h) == h.payload # None /\ h.payload[1] # {}
HasText(h) == h.payload # None /\ \E kv \in h.payload[1] : kv[1] = "text"
TextOf(h) == (CHOOSE kv \in h.payload[1] : kv[1] = "text")[2]

RefusalResponse == [status |-> 200, answer |-> Some(<<RefusalText>>), detail |-> None]

\* C1: when the vector search returns no payload-bearing hit (an empty list, or
\* only hits whose payload is absent or empty), the handler's next step ends the
\* request with exactly the fixed refusal answer and without any generation
\* call; a finished request makes no further provider call.
C1_EmptyRetrievalRefuses ==
    [][\A r \in Req :
        /\ ( /\ pc[r] = "search_done"
             /\ pc'[r] # "search_done"
             /\ searchResult[r][1].ok
             /\ \A i \in DOMAIN searchResult[r][1].hits :
                    ~PayloadBearing(searchResult[r][1].hits[i]) )
           => ( /\ pc'[r] = "done"
                /\ response'[r] = RefusalResponse
                /\ calls'[r].gen = 0
                /\ genMessages'[r] = <<>> )
        /\ (pc[r] = "done" => (pc'[r] = "done" /\ calls'[r] = calls[r]))
      ]_vars

C1_Witness ==
    \E r \in Req :
        /\ pc[r] = "done" /\ IsChat(r)
        /\ calls[r] = [embed |-> 1, search |-> 1, gen |-> 0]
        /\ response[r] = RefusalResponse

\* C2: in /chat, once the embedding, vector-search or generation call has
\* failed, the request is finished with status 500 and the fixed detail and no
\* answer, no later provider was called, and every provider was called at most
\* once.
C2_FailureEndsRequest ==
    \A r \in Req : IsChat(r) =>
        /\ calls[r].embed <= 1 /\ calls[r].search <= 1 /\ calls[r].gen <= 1
        /\ caught[r].stage \in {"embed", "search", "generate"} =>
            /\ pc[r] = "done"
            /\ response[r].status = 500
            /\ response[r].detail = Some(<<ChatFailureDetail>>)
            /\ response[r].answer = None
            /\ caught[r].stage = "embed" => (calls[r].search = 0 /\ calls[r].gen = 0)
            /\ caught[r].stage = "search" => calls[r].gen = 0

C2_Witness ==
    \E r \in Req :
        /\ IsChat(r) /\ pc[r] = "done"
        /\ caught[r].stage = "search"
        /\ response[r].status = 500
        /\ calls[r] = [embed |-> 1, search |-> 1, gen |-> 0]

\* C3 as stated: in /chat the generation provider receives exactly two messages,
\* a system message containing the joined context and a user message equal to
\* the query, and the returned answer is the provider's text.
C3_ContextInSystemMessage ==
    \A r \in Req : (IsChat(r) /\ pc[r] = "gen_call") =>
        /\ Len(genMessages[r]) = 2
        /\ genMessages[r][1].role = "system"
        /\ Contains(genMessages[r][1].content, combined[r][1])
        /\ genMessages[r][2].role = "user"
        /\ genMessages[r][2].content = request[r].query

IsSuffix(t, s) == Len(s) <= Len(t) /\ SubSeq(t, Len(t) - Len(s) + 1, Len(t)) = s

\* C3 amended: in /chat the generation provider receives exactly two messages: a
\* system message that is the fixed instruction (it names the refusal phrase and
\* holds no context), and a user message made of "Context:\n", the joined
\* context, "\n\nQuestion: " and the query; a 200 answer after a generation call
\* is the provider's text.
C3_ContextInUserMessage ==
    \A r \in Req : IsChat(r) =>
        /\ pc[r] = "gen_call" =>
            /\ Len(genMessages[r]) = 2
            /\ genMessages[r][1].role = "system"
            /\ Len(genMessages[r][1].content) = 3
            /\ genMessages[r][1].content[2] = RefusalText
            /\ genMessages[r][2].role = "user"
            /\ LET u == genMessages[r][2].content
                   ctx == combined[r][1]
               IN /\ Len(u) = 2 + Len(ctx) + Len(request[r].query)
                  /\ u[1] = "Context:\n"
                  /\ SubSeq(u, 2, 1 + Len(ctx)) = ctx
                  /\ u[2 + Len(ctx)] = "\n\nQuestion: "
                  /\ IsSuffix(u, request[r].query)
        /\ (pc[r] = "done" /\ genResult[r] # None /\ genResult[r][1].content # None) =>
               response[r] = [status |-> 200, answer |-> genResult[r][1].content,
                              detail |-> None]
        /\ (pc[r] = "done" /\ response[r].status = 200 /\ calls[r].gen = 1) =>
               (genResult[r] # None /\ response[r].answer = genResult[r][1].content)

C3_Witness ==
    \E r \in Req :
        /\ IsChat(r) /\ pc[r] = "done"
        /\ request[r].query # <<>>
        /\ calls[r].gen = 1
        /\ response[r].status = 200
        /\ response[r].answer # Some(<<RefusalText>>)

\* the texts of the hits of a list that carry a text, in the list's order
TextIndices(hits) == {i \in DOMAIN hits : HasText(hits[i])}
NthText(hits, j) ==
    TextOf(hits[CHOOSE i \in TextIndices(hits) :
                    Cardinality({m \in TextIndices(hits) : m < i}) = j - 1])
RECURSIVE StartOf(_, _)
\* offset in the context at which the j-th text starts
StartOf(hits, j) ==
    IF j = 1 THEN 0
    ELSE StartOf(hits, j - 1) + Len(NthText(hits, j - 1)) + Len(Delimiter)

\* C4: whenever /chat has assembled a context, it is the texts of the
\* payload-bearing hits in the provider's order with one delimiter between
\* neighbours: k texts, k-1 delimiters, nothing for a hit without payload.
C4_ContextIsJoinedTexts ==
    \A r \in Req : (IsChat(r) /\ pc[r] = "gen_call") =>
        LET hits == searchResult[r][1].hits
            ctx == combined[r][1]
            k == Cardinality(TextIndices(hits))
        IN /\ k >= 1
           /\ k = Cardinality({i \in DOMAIN hits : PayloadBearing(hits[i])})
           /\ Len(ctx) = StartOf(hits, k) + Len(NthText(hits, k))
           /\ Cardinality({i \in DOMAIN ctx : ctx[i] = Delimiter[1]}) = k - 1
           /\ \A j \in 1..k :
                LET t == NthText(hits, j)
                    at == StartOf(hits, j)
                IN /\ SubSeq(ctx, at + 1, at + Len(t)) = t
                   /\ j < k => SubSeq(ctx, at + Len(t) + 1, at + Len(t) + Len(Delimiter))
                                  = Delimiter

C4_Witness ==
    \E r \in Req :
        /\ IsChat(r) /\ pc[r] = "gen_call"
        /\ LET hits == searchResult[r][1].hits
           IN /\ Len(hits) = 3
              /\ HasText(hits[1]) /\ hits[2].payload = None /\ HasText(hits[3])
              /\ TextOf(hits[1]) # TextOf(hits[3])
              /\ TextOf(hits[1]) # <<>> /\ TextOf(hits[3]) # <<>>

\* C5: /chat/selective never calls the embedding or the vector-search provider,
\* calls the generation provider exactly once, with a system message holding the
\* caller's context and the selective refusal phrase and a user message equal to
\* the query, and on success answers with the provider's text unchanged.
C5_SelectiveBypassesRetrieval ==
    \A r \in Req : IsSelective(r) =>
        /\ calls[r].embed = 0 /\ calls[r].search = 0
        /\ calls[r].gen = (IF pc[r] \in {"gen_call", "done"} THEN 1 ELSE 0)
        /\ searchResult[r] = None /\ combined[r] = None
        /\ pc[r] = "gen_call" =>
            /\ Len(genMessages[r]) = 2
            /\ genMessages[r][1].role = "system"
            /\ Contains(genMessages[r][1].content, request[r].context)
            /\ SelectiveRefusalText \in Range(genMessages[r][1].content)
            /\ Len(genMessages[r][1].content) = 4 + Len(request[r].context)
            /\ genMessages[r][2] = [role |-> "user", content |-> request[r].query]
        /\ (pc[r] = "done" /\ genResult[r][1].ok /\ genResult[r][1].content # None) =>
               response[r] = [status |-> 200, answer |-> genResult[r][1].content,
                              detail |-> None]
        /\ (pc[r] = "done" /\ response[r].status = 200) =>
               (genResult[r][1].ok /\ response[r].answer = genResult[r][1].content)

C5_Witness ==
    \E r \in Req :
        /\ IsSelective(r) /\ pc[r] = "done"
        /\ request[r].context # <<>> /\ request[r].query # <<>>
        /\ request[r].context # request[r].query
        /\ response[r].status = 200
        /\ calls[r] = [embed |-> 0, search |-> 0, gen |-> 1]

\* C6 as stated: any two failure responses are the same response, whichever
\* handler produced them.
C6_OneFailureResponse ==
    \A r1, r2 \in Req :
        (response[r1].status = 500 /\ response[r2].status = 500) =>
            response[r1] = response[r2]

FailureDetailOf(kind) ==
    IF kind = "chat" THEN <<ChatFailureDetail>> ELSE <<SelectiveFailureDetail>>

\* C6 amended: every failure response has status 500 and the fixed detail of
\* its handler ("Failed to process chat request." for /chat, "Failed to process
\* selective chat request." for /chat/selective), never the exception text, so
\* two failures of the same handler are the same response whatever failed.
C6_FailureFixedPerHandler ==
    /\ \A r \in Req :
        /\ caught[r].stage # "none" =>
            /\ response[r].status = 500
            /\ response[r].answer = None
            /\ response[r].detail = Some(FailureDetailOf(request[r].kind))
            /\ caught[r].exc \notin Range(response[r].detail[1])
        /\ response[r].status = 500 => caught[r].stage # "none"
    /\ \A r1, r2 \in Req :
        ( /\ response[r1].status = 500 /\ response[r2].status = 500
          /\ request[r1].kind = request[r2].kind )
        => response[r1] = response[r2]

C6_Witness ==
    \E r1, r2 \in Req :
        /\ r1 # r2
        /\ IsChat(r1) /\ IsChat(r2)
        /\ response[r1].status = 500 /\ response[r2].status = 500
        /\ caught[r1].stage = "embed" /\ caught[r2].stage = "generate"
        /\ caught[r1].exc # caught[r2].exc

\* C7: a request whose handler is ready to run always runs to its response,
\* even when the vector search of request SlowReq never returns: the waiting
\* search does not hold the event loop.
C7_SlowSearchDelaysNobody ==
    \A q \in Req \ {SlowReq} : (pc[q] = "accepted") ~> (pc[q] = "done")

C7_Witness ==
    \E q \in Req \ {SlowReq} :
        /\ pc[SlowReq] = "search_wait"
        /\ pc[q] = "embed_call"
        /\ loop = q

\* C8: with a required environment variable missing, start-up ends aborted with
\* an error naming a missing variable, no client exists and no request is ever
\* accepted; a request is only accepted with all three secrets loaded and both
\* clients created.
C8_MissingSecretAbortsStartup ==
    /\ (env # EnvVars /\ phase # "boot") =>
        /\ phase = "aborted"
        /\ startupError # None
        /\ \E v \in EnvVars \ env : startupError[1] = StartupMessage(v)
    /\ env # EnvVars =>
        /\ clients = {}
        /\ \A r \in Req : pc[r] = "idle" /\ response[r] = NoResponse
    /\ (\E r \in Req : pc[r] # "idle") =>
        (secrets = EnvVars /\ clients = {"qdrant", "openai"} /\ startupError = None)

C8_Witness ==
    /\ phase = "aborted"
    /\ env = {"OPENAI_API_KEY", "QDRANT_API_KEY"}
    /\ startupError = Some(StartupMessage("QDRANT_URL"))

\* C9: while a request waits in its embedding or generation call, every other
\* request whose handler is ready to run can take its next step.
C9_ProviderCallsDoNotStall ==
    \A r, q \in Req :
        ( /\ r # q
          /\ pc[r] \in {"embed_call", "gen_call"}
          /\ pc[q] \in {"accepted", "search_done"} )
        => ENABLED (RagChatStart(q) \/ SelectiveStart(q) \/ RagChatResume(q))

\* C10: a /chat request whose vector search succeeded fails only if the
\* generation call fails: assembling the context never produces the 500.
C10_AssemblyNeverFails ==
    \A r \in Req :
        (IsChat(r) /\ response[r].status = 500) =>
            caught[r].stage \in {"embed", "search", "generate", "respond"}

====
